---- MODULE Spec2Model ----
(***************************************************************************)
(* Model of the device registry of auri (src/auri/device_manager.py and    *)
(* src/auri/aurora.py).  The persisted configuration store is a JSON file; *)
(* every DeviceManager operation loads it, works on the in-memory dict and *)
(* possibly writes it back.  Python exceptions are modelled as the "exc"   *)
(* component of an operation's outcome.  The second part models the        *)
(* ambilight of src/auri/ambilight.py: the ticks of its loop, and the      *)
(* start and stop of the background loop process through the pid file,     *)
(* also as the commands of src/auri/command_line.py do them.  Further      *)
(* parts model the commands of an Aurora object (src/auri/aurora.py), the  *)
(* supervisor of src/auri/ambilight_controller.py and set_active of        *)
(* src/auri/config.py.                                                     *)
(***************************************************************************)
EXTENDS Integers, Sequences, FiniteSets, TLC

VARIABLES store, op, argName, argAurora, argVerbose, exc, msg, ret, loaded,
          globals, ctl, pc, clock, tick, pidFile, procs, sup,
          device, requests, cmd

\* the device registry and the call made on it
regVars == <<store, op, argName, argAurora, argVerbose, exc, msg, ret, loaded>>

\* the ambilight controller, its loop, and the processes of the machine
ambiVars == <<globals, ctl, pc, clock, tick, pidFile, procs, sup>>

\* an Aurora object, the HTTP requests sent for it, and the last call on it
auroraVars == <<device, requests, cmd>>

vars == <<regVars, ambiVars, auroraVars>>

(***************************************************************************)
(* Bounds of the model.                                                    *)
(***************************************************************************)
MaxRecords == 2
MaxNamed == 3
RecursionLimit == 5

(***************************************************************************)
(* JSON / Python values.  A value carries its type, so that a type test    *)
(* of the schema and Python's truthiness are computed from the value.      *)
(***************************************************************************)
JStr(s) == [type |-> "string", val |-> s]
JBool(b) == [type |-> "boolean", val |-> IF b THEN "true" ELSE "false"]
JNull == [type |-> "null", val |-> "null"]
JNum(s) == [type |-> "number", val |-> s]
JObj(fields) == [type |-> "object", val |-> fields]

\* Python truth value of a JSON value loaded by json.load
Truthy(v) ==
    CASE v.type = "boolean" -> v.val = "true"
      [] v.type = "string" -> v.val # ""
      [] v.type = "number" -> v.val # "0"
      [] v.type = "null" -> FALSE
      [] v.type = "object" -> DOMAIN v.val # {}

\* d[f] = v on a Python dict d (the key is added when absent)
DictSet(d, f, v) == [g \in (DOMAIN d) \cup {f} |-> IF g = f THEN v ELSE d[g]]

(***************************************************************************)
(* Keys of the store are strings, modelled as sequences of characters so   *)
(* that the schema's pattern and the ordering of sort_keys are computed.   *)
(***************************************************************************)
IP1 == <<"1", ".", "1", ".", "1", ".", "1">>
IP2 == <<"1", ".", "1", ".", "1", ".", "2">>
NotIP == <<"1", ".", "1", ".", "1">>
Keys == {IP1, IP2, NotIP}

Digits == {"0", "1", "2", "3", "4", "5", "6", "7", "8", "9"}

DigitsAt(s, i, k) == i + k - 1 <= Len(s) /\ \A j \in i..(i + k - 1) : s[j] \in Digits

\* "$" of a Python regular expression: the end, or just before a final newline
AtEnd(s, i) == i = Len(s) + 1 \/ (i = Len(s) /\ s[i] = "\n")

RECURSIVE MatchGroups(_, _, _)
MatchGroups(s, i, groupsLeft) ==
    IF groupsLeft = 0
    THEN \E k \in 1..3 : DigitsAt(s, i, k) /\ AtEnd(s, i + k)
    ELSE \E k \in 1..3 : /\ DigitsAt(s, i, k)
                         /\ i + k <= Len(s)
                         /\ s[i + k] = "."
                         /\ MatchGroups(s, i + k + 1, groupsLeft - 1)

\* re.search("^(?:[0-9]{1,3}\.){3}[0-9]{1,3}$", key)
KeyPattern(key) == MatchGroups(key, 1, 3)

\* Code point of a character, for Python's ordering of str
CharCode(c) ==
    CASE c = "\n" -> 10
      [] c = "." -> 46
      [] c = "0" -> 48 [] c = "1" -> 49 [] c = "2" -> 50 [] c = "3" -> 51
      [] c = "4" -> 52 [] c = "5" -> 53 [] c = "6" -> 54 [] c = "7" -> 55
      [] c = "8" -> 56 [] c = "9" -> 57

\* a < b for two Python str
RECURSIVE StrLess(_, _)
StrLess(a, b) ==
    IF a = <<>> THEN b # <<>>
    ELSE IF b = <<>> THEN FALSE
    ELSE IF Head(a) = Head(b) THEN StrLess(Tail(a), Tail(b))
    ELSE CharCode(Head(a)) < CharCode(Head(b))

\* The items of a dict in the order json.dump(..., sort_keys=True) writes them
RECURSIVE SortKeys(_)
SortKeys(configs) ==
    IF configs = <<>> THEN <<>>
    ELSE LET least == CHOOSE i \in 1..Len(configs) :
                        \A j \in 1..Len(configs) : j # i => StrLess(configs[i].key, configs[j].key)
             rest == [k \in 1..(Len(configs) - 1) |-> IF k < least THEN configs[k] ELSE configs[k + 1]]
         IN <<configs[least]>> \o SortKeys(rest)

(***************************************************************************)
(* An AuroraConfigs dict is a sequence of items [key, data] in insertion   *)
(* order (Python dicts keep it), with distinct keys; data is a JSON value. *)
(***************************************************************************)
HasKey(configs, key) == \E i \in 1..Len(configs) : configs[i].key = key

\* configs.update({key: data}): an existing key keeps its place, a new one goes last
DictUpdate(configs, key, data) ==
    IF HasKey(configs, key)
    THEN [i \in 1..Len(configs) |->
            IF configs[i].key = key THEN [key |-> key, data |-> data] ELSE configs[i]]
    ELSE Append(configs, [key |-> key, data |-> data])

\* the "properties" of the schema: a present field has the stated type
PropertiesOK(data) ==
    /\ data.type = "object"
    /\ \A f \in (DOMAIN data.val) \cap {"name", "token", "mac"} : data.val[f].type = "string"
    /\ "active" \in DOMAIN data.val => data.val["active"].type = "boolean"

\* jsonschema.validate(configs, configs_schema) does not raise
configs_schema(top, configs) ==
    /\ top = "object"
    /\ \A i \in 1..Len(configs) : KeyPattern(configs[i].key) => PropertiesOK(configs[i].data)

\* outcome of a step that works on a dict: the exception raised ("none" if none)
\* and the dict as the step left it
Outcome(e, configs) == [exc |-> e, configs |-> configs]

\* the exception a["active"] raises, "none" if it evaluates
SubscriptExc(a, f) ==
    IF a.type # "object" THEN "TypeError"
    ELSE IF f \notin DOMAIN a.val THEN "KeyError"
    ELSE "none"

_clear_all_actives(configs) ==
    [i \in 1..Len(configs) |->
        [key |-> configs[i].key,
         data |-> JObj(DictSet(configs[i].data.val, "active", JBool(FALSE)))]]

\* the repair sets the last record active
SetLastActive(configs) ==
    [i \in 1..Len(configs) |->
        IF i = Len(configs)
        THEN [key |-> configs[i].key,
              data |-> JObj(DictSet(configs[i].data.val, "active", JBool(TRUE)))]
        ELSE configs[i]]

\* for ip, data in configs.items(): data["active"] = True; return
SetFirstActive(configs) ==
    [i \in 1..Len(configs) |->
        IF i = 1
        THEN [key |-> configs[i].key,
              data |-> JObj(DictSet(configs[i].data.val, "active", JBool(TRUE)))]
        ELSE configs[i]]

ActiveCount(configs) ==
    Cardinality({i \in 1..Len(configs) : Truthy(configs[i].data.val["active"])})

\* the repair without _clear_all_actives
_ensure_valid_actives_noclear(configs, verbose) ==
    IF \E i \in 1..Len(configs) : SubscriptExc(configs[i].data, "active") # "none"
    THEN Outcome("KeyError", configs)
    ELSE IF ActiveCount(configs) = 1 \/ Len(configs) = 0
    THEN (IF verbose THEN Outcome("AttributeError", configs) ELSE Outcome("none", configs))
    ELSE Outcome("none", SetFirstActive(configs))

_ensure_valid_actives(configs, verbose) ==
    IF \E i \in 1..Len(configs) : SubscriptExc(configs[i].data, "active") # "none"
    THEN LET first == CHOOSE i \in 1..Len(configs) :
                        /\ SubscriptExc(configs[i].data, "active") # "none"
                        /\ \A j \in 1..(i - 1) : SubscriptExc(configs[j].data, "active") = "none"
         IN Outcome(SubscriptExc(configs[first].data, "active"), configs)
    ELSE IF ActiveCount(configs) = 1
    THEN (IF verbose THEN Outcome("AttributeError", configs) ELSE Outcome("none", configs))
    ELSE IF Len(configs) = 0
    THEN (IF verbose THEN Outcome("AttributeError", configs) ELSE Outcome("none", configs))
    ELSE Outcome("none", SetFirstActive(_clear_all_actives(configs)))

\* renames once and does not look at the new name
_unique_name_once(data, names) ==
    IF "name" \notin DOMAIN data.val
    THEN [exc |-> "KeyError", data |-> data, names |-> names, steps |-> 0]
    ELSE LET name == data.val["name"]
         IN IF \A k \in 1..Len(names) : names[k] # name
            THEN [exc |-> "none", data |-> data, names |-> Append(names, name), steps |-> 0]
            ELSE IF name.type # "string"
            THEN [exc |-> "TypeError", data |-> data, names |-> names, steps |-> 0]
            ELSE [exc |-> "none",
                  data |-> JObj(DictSet(data.val, "name", JStr(name.val \o " [duplicate]"))),
                  names |-> Append(names, JStr(name.val \o " [duplicate]")),
                  steps |-> 1]

\* recurses without renaming
RECURSIVE UniqueNameAt_norename(_, _, _)
UniqueNameAt_norename(data, names, depth) ==
    IF depth > RecursionLimit
    THEN [exc |-> "RecursionError", data |-> data, names |-> names, steps |-> depth]
    ELSE IF "name" \notin DOMAIN data.val
    THEN [exc |-> "KeyError", data |-> data, names |-> names, steps |-> depth]
    ELSE LET name == data.val["name"]
         IN IF \A k \in 1..Len(names) : names[k] # name
            THEN [exc |-> "none", data |-> data, names |-> Append(names, name), steps |-> depth]
            ELSE IF name.type # "string"
            THEN [exc |-> "TypeError", data |-> data, names |-> names, steps |-> depth]
            ELSE UniqueNameAt_norename(data, names, depth + 1)

\* the inner function of _ensure_unique_names, called for the depth-th time
\* on data: renames data until its name is not in names, then appends the
\* name to names; steps is the number of renamings.  Python ends a recursion
\* deeper than its limit with RecursionError.
RECURSIVE UniqueNameAt(_, _, _)
UniqueNameAt(data, names, depth) ==
    IF depth > RecursionLimit
    THEN [exc |-> "RecursionError", data |-> data, names |-> names, steps |-> depth]
    ELSE IF "name" \notin DOMAIN data.val
    THEN [exc |-> "KeyError", data |-> data, names |-> names, steps |-> depth]
    ELSE LET name == data.val["name"]
         IN IF \A k \in 1..Len(names) : names[k] # name
            THEN [exc |-> "none", data |-> data, names |-> Append(names, name), steps |-> depth]
            ELSE IF name.type # "string"
            THEN [exc |-> "TypeError", data |-> data, names |-> names, steps |-> depth]
            ELSE UniqueNameAt(JObj(DictSet(data.val, "name", JStr(name.val \o " [duplicate]"))),
                              names, depth + 1)

_unique_name(data, names) == UniqueNameAt(data, names, 0)

\* for ip, data in configs.items(): _unique_name(data), from item i on
RECURSIVE UniqueNamesFrom(_, _, _)
UniqueNamesFrom(configs, i, names) ==
    IF i > Len(configs) THEN Outcome("none", configs)
    ELSE LET r == _unique_name(configs[i].data, names)
             renamed == [configs EXCEPT ![i] = [key |-> configs[i].key, data |-> r.data]]
         IN IF r.exc # "none" THEN Outcome(r.exc, renamed)
            ELSE UniqueNamesFrom(renamed, i + 1, r.names)

_ensure_unique_names(configs, verbose) == UniqueNamesFrom(configs, 1, <<>>)

_ensure_valid_configs(top, configs, verbose) ==
    IF ~configs_schema(top, configs) THEN Outcome("ValidationError", configs)
    ELSE LET a == _ensure_valid_actives(configs, verbose)
         IN IF a.exc # "none" THEN a
            ELSE _ensure_unique_names(a.configs, verbose)

(***************************************************************************)
(* The configuration store: the file at conf_path.  exists is FALSE when   *)
(* there is no file; top is the type of the JSON document's top level and  *)
(* items are its members in file order.                                    *)
(***************************************************************************)
NoFile == [exists |-> FALSE, top |-> "object", items |-> <<>>]
File(top, items) == [exists |-> TRUE, top |-> top, items |-> items]

\* opens the file without asking whether it exists
_load_configs_noexists(file, verbose) ==
    IF ~file.exists THEN Outcome("FileNotFoundError", <<>>)
    ELSE _ensure_valid_configs(file.top, file.items, verbose)

_load_configs(file, verbose) ==
    IF ~file.exists THEN Outcome("none", <<>>)
    ELSE _ensure_valid_configs(file.top, file.items, verbose)

\* _save_config: the outcome, and the file afterwards (written only when the
\* validation did not raise)
_save_config(file, configs, verbose) ==
    LET v == _ensure_valid_configs("object", configs, verbose)
    IN [exc |-> v.exc, msg |-> "",
        file |-> IF v.exc = "none" THEN File("object", SortKeys(v.configs)) ELSE file]

(***************************************************************************)
(* Aurora objects (src/auri/aurora.py).  auth_token is a str or None.      *)
(***************************************************************************)
\* str(v) of a token, as an f-string formats it
Str(v) == IF v.type = "null" THEN "None" ELSE v.val

\* the URL http://{host}:16021/{path}
Url(host, path) == [host |-> host, port |-> 16021, path |-> path]

Aurora(ip_address, name, mac, auth_token) ==
    [ip_address |-> ip_address,
     auth_token |-> auth_token,
     name |-> name,
     device_url |-> Url(ip_address, <<"api", "v1">>),
     authenticated_url |-> Url(ip_address, <<"api", "v1", Str(auth_token)>>),
     token_url |-> Url(ip_address, <<"api", "v1", "new">>),
     mac |-> mac]

NoAurora == Aurora(<<>>, JNull, JNull, JNull)

\* what requests.request does: it raises, or returns a response with a
\* status code and, in its JSON body, an auth_token (None if there is none)
Response(raised, status_code, auth_token) ==
    [raised |-> raised, status_code |-> status_code, auth_token |-> auth_token]

\* _convert_response_exceptions: the exception raised for a response
_convert_response_exceptions(response) ==
    IF response.status_code \in {401, 403} THEN "AuroraException"
    ELSE IF response.status_code >= 400 THEN "AuroraException"
    ELSE "none"

\* sends the request whether or not there is a token
__command_nocheck(self, method, endpoint, authenticated, response) ==
    LET base == IF authenticated THEN self.authenticated_url ELSE self.device_url
        url == [base EXCEPT !.path = base.path \o <<endpoint>>]
    IN [exc |-> IF response.raised # "none" THEN response.raised
                ELSE _convert_response_exceptions(response),
        sent |-> <<[method |-> method, url |-> url]>>,
        auth_token |-> response.auth_token]

\* Aurora.__command: the exception raised, the requests sent, and the
\* auth_token of the JSON body returned
__command(self, method, endpoint, authenticated, response) ==
    IF authenticated /\ ~Truthy(self.auth_token)
    THEN [exc |-> "AuroraException", sent |-> <<>>, auth_token |-> JNull]
    ELSE LET base == IF authenticated THEN self.authenticated_url ELSE self.device_url
             url == [base EXCEPT !.path = base.path \o <<endpoint>>]
         IN [exc |-> IF response.raised # "none" THEN response.raised
                     ELSE _convert_response_exceptions(response),
             sent |-> <<[method |-> method, url |-> url]>>,
             auth_token |-> response.auth_token]

\* Aurora.generate_token: the exception, the object afterwards, the requests
generate_token(self, response) ==
    LET c == __command(self, "post", "new", FALSE, response)
    IN IF c.exc # "none" THEN [exc |-> c.exc, self |-> self, sent |-> c.sent]
       ELSE [exc |-> IF c.auth_token = JNull THEN "AssertionError" ELSE "none",
             self |-> [self EXCEPT !.auth_token = c.auth_token],
             sent |-> c.sent]

\* Aurora.identify, an authenticated command
identify(self, response) ==
    LET c == __command(self, "put", "identify", TRUE, response)
    IN [exc |-> c.exc, self |-> self, sent |-> c.sent]

\* Aurora.serialize: the single {ip: data} item, as its key and its data
serialize(aurora) ==
    [key |-> aurora.ip_address,
     data |-> JObj([f \in {"name", "token", "mac", "default"} |->
                CASE f = "name" -> aurora.name
                  [] f = "token" -> aurora.auth_token
                  [] f = "mac" -> aurora.mac
                  [] f = "default" -> JBool(FALSE)])]

\* passes the token as the mac and the mac as the token
deserialize_swapped(ip, data) ==
    IF \E f \in {"name", "mac", "token"} : f \notin DOMAIN data.val
    THEN [exc |-> "KeyError", msg |-> "", aurora |-> NoAurora]
    ELSE [exc |-> "none", msg |-> "",
          aurora |-> Aurora(ip, data.val["name"], data.val["token"], data.val["mac"])]

\* Aurora.deserialize(ip, data): the exception raised and the object built
deserialize(ip, data) ==
    IF \E f \in {"name", "mac", "token"} : f \notin DOMAIN data.val
    THEN [exc |-> "KeyError", msg |-> "", aurora |-> NoAurora]
    ELSE [exc |-> "none", msg |-> "",
          aurora |-> Aurora(ip, data.val["name"], data.val["mac"], data.val["token"])]

(***************************************************************************)
(* DeviceManager operations.  Each is a function of the file and the       *)
(* arguments: the exception raised ("none" if it returns), the file        *)
(* afterwards and, for a getter, the Aurora returned.                      *)
(***************************************************************************)
\* the messages of the DeviceNotExistsException raised by set_active,
\* get_by_name and get_active (the name is left out of the text)
NotFoundToActivate == "No Aurora with name {name} was found, could not set it active"
NotFoundByName == "No Aurora with name '{name}' found"
NoActiveFound == "No active Aurora found"

\* the first index of a set of indices of a dict's items, 0 if there is none
FirstIndex(indices) ==
    IF indices = {} THEN 0
    ELSE CHOOSE i \in indices : \A j \in indices : i <= j

\* the indices of the items named name
NamedIndices(configs, name) ==
    {i \in 1..Len(configs) : configs[i].data.val["name"] = name}

\* saves the cleared flags before it raises
set_active_savefirst(file, name, verbose) ==
    LET l == _load_configs(file, verbose)
    IN IF l.exc # "none" THEN [exc |-> l.exc, msg |-> "", file |-> file]
       ELSE LET cleared == _clear_all_actives(l.configs)
                i == FirstIndex(NamedIndices(cleared, name))
            IN IF i = 0
               THEN [exc |-> "DeviceNotExistsException", msg |-> NotFoundToActivate,
                     file |-> _save_config(file, cleared, verbose).file]
               ELSE _save_config(file,
                        [cleared EXCEPT ![i] =
                            [key |-> cleared[i].key,
                             data |-> JObj(DictSet(cleared[i].data.val, "active", JBool(TRUE)))]],
                        verbose)

\* without _clear_all_actives (as set_active of src/auri/config.py)
set_active_noclear(file, name, verbose) ==
    LET l == _load_configs(file, verbose)
    IN IF l.exc # "none" THEN [exc |-> l.exc, msg |-> "", file |-> file]
       ELSE LET i == FirstIndex(NamedIndices(l.configs, name))
            IN IF i = 0 THEN [exc |-> "DeviceNotExistsException", msg |-> NotFoundToActivate,
                          file |-> file]
               ELSE _save_config(file,
                        [l.configs EXCEPT ![i] =
                            [key |-> l.configs[i].key,
                             data |-> JObj(DictSet(l.configs[i].data.val, "active", JBool(TRUE)))]],
                        verbose)

set_active(file, name, verbose) ==
    LET l == _load_configs(file, verbose)
    IN IF l.exc # "none" THEN [exc |-> l.exc, msg |-> "", file |-> file]
       ELSE LET cleared == _clear_all_actives(l.configs)
                i == FirstIndex(NamedIndices(cleared, name))
            IN IF i = 0 THEN [exc |-> "DeviceNotExistsException", msg |-> NotFoundToActivate,
                          file |-> file]
               ELSE _save_config(file,
                        [cleared EXCEPT ![i] =
                            [key |-> cleared[i].key,
                             data |-> JObj(DictSet(cleared[i].data.val, "active", JBool(TRUE)))]],
                        verbose)

get_by_name(file, name, verbose) ==
    LET l == _load_configs(file, verbose)
    IN IF l.exc # "none" THEN [exc |-> l.exc, msg |-> "", aurora |-> NoAurora]
       ELSE LET i == FirstIndex(NamedIndices(l.configs, name))
            IN IF i = 0 THEN [exc |-> "DeviceNotExistsException", msg |-> NotFoundByName,
                              aurora |-> NoAurora]
               ELSE deserialize(l.configs[i].key, l.configs[i].data)

\* returns the first record whatever its flag
get_active_first(file, verbose) ==
    LET l == _load_configs(file, verbose)
    IN IF l.exc # "none" THEN [exc |-> l.exc, msg |-> "", aurora |-> NoAurora]
       ELSE IF Len(l.configs) = 0
            THEN [exc |-> "DeviceNotExistsException", msg |-> NoActiveFound, aurora |-> NoAurora]
       ELSE deserialize(l.configs[1].key, l.configs[1].data)

get_active(file, verbose) ==
    LET l == _load_configs(file, verbose)
    IN IF l.exc # "none" THEN [exc |-> l.exc, msg |-> "", aurora |-> NoAurora]
       ELSE LET i == FirstIndex({k \in 1..Len(l.configs) :
                                            Truthy(l.configs[k].data.val["active"])})
            IN IF i = 0 THEN [exc |-> "DeviceNotExistsException", msg |-> NoActiveFound,
                              aurora |-> NoAurora]
               ELSE deserialize(l.configs[i].key, l.configs[i].data)

\* without the fallback to the active device
get_by_name_or_active_nofallback(file, name, verbose) == get_by_name(file, name, verbose)

get_by_name_or_active(file, name, verbose) ==
    LET n == get_by_name(file, name, verbose)
    IN IF n.exc = "DeviceNotExistsException" THEN get_active(file, verbose) ELSE n

save_aurora(file, aurora, verbose) ==
    LET l == _load_configs(file, verbose)
    IN IF l.exc # "none" THEN [exc |-> l.exc, msg |-> "", file |-> file]
       ELSE LET item == serialize(aurora)
            IN _save_config(file, DictUpdate(l.configs, item.key, item.data), FALSE)

(***************************************************************************)
(* Ambilight (src/auri/ambilight.py): the controller object, one tick of   *)
(* its loop, and the supervision of the background loop process through    *)
(* the pid file.  A colour is a tuple <<hue, saturation, brightness>>.     *)
(***************************************************************************)
MaxColors == 3
MaxTook == 2
MaxClock == 4
MaxPid == 3
MaxChain == 3

EFFECT_TEMPLATE ==
    [command |-> "add",
     animName |-> "AuriAmbi",
     animType |-> "random",
     colorType |-> "HSB",
     animData |-> JNull,
     palette |-> <<>>,
     brightnessRange |-> [minValue |-> 50, maxValue |-> 100],
     transTime |-> [minValue |-> 20, maxValue |-> 30],
     delayTime |-> [minValue |-> 25, maxValue |-> 100],
     loop |-> TRUE]

PROPERTY_TEMPLATE == [delay |-> 1, top |-> 10, quantization |-> 10, greyness |-> 10]

\* the module-level names of ambilight.py: the two templates, and whether
\* PIL's ImageGrab could be imported (it is None when it could not)
Globals(effect, property, grab) ==
    [EFFECT_TEMPLATE |-> effect, PROPERTY_TEMPLATE |-> property, ImageGrab |-> grab]

\* takes top as it is in the template
AmbilightController_noclamp(module) ==
    [exc |-> IF module.ImageGrab THEN "none" ELSE "AuroraException",
     _quantization |-> module.PROPERTY_TEMPLATE.quantization,
     _top |-> module.PROPERTY_TEMPLATE.top,
     _greyness |-> module.PROPERTY_TEMPLATE.greyness,
     _delay |-> module.PROPERTY_TEMPLATE.delay]

\* AmbilightController.__init__: the exception it raises ("none" if the
\* object is built) and the settings of the object, read from the template,
\* top reduced to quantization
AmbilightController(module) ==
    [exc |-> IF module.ImageGrab THEN "none" ELSE "AuroraException",
     _quantization |-> module.PROPERTY_TEMPLATE.quantization,
     _top |-> IF module.PROPERTY_TEMPLATE.quantization < module.PROPERTY_TEMPLATE.top
              THEN module.PROPERTY_TEMPLATE.quantization ELSE module.PROPERTY_TEMPLATE.top,
     _greyness |-> module.PROPERTY_TEMPLATE.greyness,
     _delay |-> module.PROPERTY_TEMPLATE.delay]

\* colors[:n]
Slice(colors, n) == SubSeq(colors, 1, IF Len(colors) < n THEN Len(colors) ELSE n)

\* the list comprehension of _render_effect_template
Palette(colors) ==
    [i \in 1..Len(colors) |->
        [hue |-> colors[i][1], saturation |-> colors[i][2], brightness |-> colors[i][3]]]

\* assigns the palette to the template itself, without the copy
_render_effect_template_nocopy(template, colors) ==
    [rendered |-> [template EXCEPT !.palette = Palette(colors)],
     template |-> [template EXCEPT !.palette = Palette(colors)]]

\* _render_effect_template: the dict returned, and EFFECT_TEMPLATE afterwards
\* (the assignment is made to the copy)
_render_effect_template(template, colors) ==
    [rendered |-> [template EXCEPT !.palette = Palette(colors)],
     template |-> template]

\* keeps the empty list when every colour is filtered out
colors_filtered_nofallback(self, colors) ==
    SelectSeq(colors, LAMBDA c : c[2] >= self._greyness)

\* cuts the list to _top before it filters
colors_filtered_cutfirst(self, colors) ==
    LET cut == SubSeq(colors, 1, IF Len(colors) < self._top THEN Len(colors) ELSE self._top)
        filtered == SelectSeq(cut, LAMBDA c : c[2] >= self._greyness)
    IN IF Len(filtered) = 0 THEN colors ELSE filtered

\* colors_filtered of set_effect_to_current_screen_colors
colors_filtered(self, colors) ==
    LET filtered == SelectSeq(colors, LAMBDA c : c[2] >= self._greyness)
    IN IF Len(filtered) = 0 THEN colors ELSE filtered

\* the payloads handed to the device in a tick: none, or one
NoPayload == <<>>

\* Aurora.set_raw_effect_data(effect_data): the exception the request raises
PushOutcomes == {"none", "RequestException", "AuroraException"}

\* _get_current_display_image_colors: the exception of the screen grab, or
\* the colours of the quantized image by falling frequency
CaptureOutcome(e, colors) == [exc |-> e, colors |-> colors]

\* set_effect_to_current_screen_colors, given what the screen grab and the
\* push do: the exception that leaves it and the payload handed to the push
set_effect_to_current_screen_colors(self, template, capture, push) ==
    IF capture.exc # "none"
    THEN [exc |-> capture.exc, pushed |-> NoPayload, template |-> template]
    ELSE LET r == _render_effect_template(
                      template, Slice(colors_filtered(self, capture.colors), self._top))
         IN [exc |-> push, pushed |-> <<r.rendered>>, template |-> r.template]

\* the except clause of _run_ambi_loop catches only a RequestException
except_request_only(e) == e = "RequestException"

\* the except clause of _run_ambi_loop catches every exception
except_all(e) == TRUE

\* the except clause of _run_ambi_loop: the exceptions it catches
except_clause(e) == e \in {"RequestException", "AuroraException"}

\* sleeps for what is left of the delay since the start of the tick
sleep_remaining(self, start, now) ==
    IF now - start < self._delay THEN self._delay - (now - start) ELSE 0

\* the argument of time.sleep at the end of a tick
sleep_time(self, start, now) == self._delay

\* a value of the pid file, and of load_pid(): None, or the pid written
NoPid == <<>>
Pids == 1..MaxPid

load_pid(file) == file
save_pid(file, pid) == <<pid>>

\* os.kill(pid, SIGKILL): the processes afterwards and the one killed
os_kill(pid, processes) ==
    IF pid = NoPid THEN [exc |-> "TypeError", procs |-> processes, killed |-> {}]
    ELSE IF processes[pid[1]] = "free"
    THEN [exc |-> "ProcessLookupError", procs |-> processes, killed |-> {}]
    ELSE [exc |-> "none", procs |-> [processes EXCEPT ![pid[1]] = "free"],
          killed |-> {pid[1]}]

\* AmbilightController.stop
stop(file, processes) ==
    LET pid == load_pid(file)
        k == os_kill(pid, processes)
    IN [exc |-> IF k.exc = "ProcessLookupError" THEN "none" ELSE k.exc,
        procs |-> k.procs, killed |-> k.killed]

\* effects_ambi_stop of command_line.py
effects_ambi_stop(file, processes) ==
    LET pid == load_pid(file)
    IN IF pid = NoPid THEN [exc |-> "none", procs |-> processes, killed |-> {}]
       ELSE LET k == os_kill(pid, processes)
            IN [exc |-> IF k.exc = "ProcessLookupError" THEN "none" ELSE k.exc,
                procs |-> k.procs, killed |-> k.killed]

\* no Aurora object is in use
AuroraIdle ==
    /\ device = NoAurora
    /\ requests = <<>>
    /\ cmd = [name |-> "none", exc |-> "none", init_token |-> JNull]

\* the ambilight controller before any call, no process running
AmbiIdle ==
    /\ globals = Globals(EFFECT_TEMPLATE, PROPERTY_TEMPLATE, TRUE)
    /\ ctl = AmbilightController(globals)
    /\ pc = "idle"
    /\ clock = 0
    /\ tick = [n |-> 0, start |-> 0, prevStart |-> 0, took |-> 0, prevTook |-> 0,
               colors |-> <<>>, exc |-> "none", pushed |-> NoPayload]
    /\ pidFile = NoPid
    /\ procs = [p \in Pids |-> "free"]
    /\ sup = [op |-> "none", blocking |-> FALSE, exc |-> "none", killed |-> {},
              spawned |-> {}, chain |-> 0]

(***************************************************************************)
(* Inputs: the files the store may hold before the first call, and the     *)
(* arguments of the calls.                                                 *)
(***************************************************************************)
StoredNames == {"a", "a [duplicate]"}

Record(name, token, active, mac) ==
    JObj([f \in {"name", "token", "active", "mac"} |->
            CASE f = "name" -> name
              [] f = "token" -> token
              [] f = "active" -> active
              [] f = "mac" -> mac])

\* data without the field f
Without(data, f) == JObj([g \in (DOMAIN data.val) \ {f} |-> data.val[g]])

WellFormedData ==
    {Record(JStr(n), JStr("t"), JBool(b), JStr("m")) : n \in StoredNames, b \in BOOLEAN}

MalformedData ==
    {Without(Record(JStr("a"), JStr("t"), JBool(TRUE), JStr("m")), f) :
        f \in {"name", "token", "active", "mac"}}
    \cup {Record(JStr("a"), JNull, JBool(TRUE), JStr("m")),
          Record(JStr("a"), JStr("t"), JStr("yes"), JStr("m")),
          JNull}

StoredData == WellFormedData \cup MalformedData

\* the JSON objects of at most MaxRecords members: distinct keys, in any order
StoredItems ==
    UNION {{items \in [1..n -> [key : Keys, data : StoredData]] :
                \A i, j \in 1..n : i # j => items[i].key # items[j].key} : n \in 0..MaxRecords}

Stores == {NoFile, File("array", <<>>)} \cup {File("object", items) : items \in StoredItems}

CallNames == {JStr(n) : n \in StoredNames} \cup {JStr("zz")}

CallAuroras ==
    {Aurora(ip, JStr("a"), JStr("m2"), token) : ip \in Keys, token \in {JStr("t2"), JNull}}

Init ==
    /\ store \in Stores
    /\ op = "idle"
    /\ argName = JNull
    /\ argAurora = NoAurora
    /\ argVerbose = FALSE
    /\ exc = "none"
    /\ msg = ""
    /\ ret = NoAurora
    /\ loaded = <<>>
    /\ AmbiIdle
    /\ AuroraIdle

SetActive ==
    \E name \in CallNames, verbose \in BOOLEAN :
        LET r == set_active(store, name, verbose)
        IN /\ op = "idle"
           /\ store' = r.file
           /\ op' = "set_active"
           /\ argName' = name
           /\ argAurora' = NoAurora
           /\ argVerbose' = verbose
           /\ exc' = r.exc
           /\ msg' = r.msg
           /\ ret' = NoAurora
           /\ loaded' = <<>>
           /\ UNCHANGED <<ambiVars, auroraVars>>

SaveAurora ==
    \E aurora \in CallAuroras, verbose \in BOOLEAN :
        LET r == save_aurora(store, aurora, verbose)
        IN /\ op = "idle"
           /\ store' = r.file
           /\ op' = "save_aurora"
           /\ argName' = JNull
           /\ argAurora' = aurora
           /\ argVerbose' = verbose
           /\ exc' = r.exc
           /\ msg' = r.msg
           /\ ret' = NoAurora
           /\ loaded' = <<>>
           /\ UNCHANGED <<ambiVars, auroraVars>>

GetByNameOrActive ==
    \E name \in CallNames \cup {JNull}, verbose \in BOOLEAN :
        LET r == get_by_name_or_active(store, name, verbose)
        IN /\ op = "idle"
           /\ op' = "get_by_name_or_active"
           /\ argName' = name
           /\ argAurora' = NoAurora
           /\ argVerbose' = verbose
           /\ exc' = r.exc
           /\ msg' = r.msg
           /\ ret' = r.aurora
           /\ loaded' = <<>>
           /\ UNCHANGED <<store, ambiVars, auroraVars>>

LoadConfigs ==
    \E verbose \in BOOLEAN :
        LET r == _load_configs(store, verbose)
        IN /\ op = "idle"
           /\ op' = "_load_configs"
           /\ argName' = JNull
           /\ argAurora' = NoAurora
           /\ argVerbose' = verbose
           /\ exc' = r.exc
           /\ msg' = ""
           /\ ret' = NoAurora
           /\ loaded' = IF r.exc = "none" THEN r.configs ELSE <<>>
           /\ UNCHANGED <<store, ambiVars, auroraVars>>

\* an Aurora is serialized and the single entry of the dict is deserialized
SerializeDeserialize ==
    \E aurora \in CallAuroras :
        LET item == serialize(aurora)
            r == deserialize(item.key, item.data)
        IN /\ op = "idle"
           /\ op' = "serialize"
           /\ argName' = JNull
           /\ argAurora' = aurora
           /\ argVerbose' = FALSE
           /\ exc' = r.exc
           /\ msg' = r.msg
           /\ ret' = r.aurora
           /\ loaded' = <<item>>
           /\ UNCHANGED <<store, ambiVars, auroraVars>>

\* the command line invocation that made the call ends; the next one starts
\* from the file alone (a DeviceManager keeps no registry in memory)
Exit ==
    /\ op # "idle"
    /\ op' = "idle"
    /\ argName' = JNull
    /\ argAurora' = NoAurora
    /\ argVerbose' = FALSE
    /\ exc' = "none"
    /\ msg' = ""
    /\ ret' = NoAurora
    /\ loaded' = <<>>
    /\ UNCHANGED <<store, ambiVars, auroraVars>>

Next ==
    SetActive \/ SaveAurora \/ GetByNameOrActive \/ LoadConfigs \/ SerializeDeserialize \/ Exit

Spec == Init /\ [][Next]_vars

(***************************************************************************)
(* Vocabulary of the properties.                                           *)
(***************************************************************************)
\* every member has the four fields of a device record, with their types
CompleteRecords(items) ==
    \A i \in 1..Len(items) :
        /\ items[i].data.type = "object"
        /\ {"name", "token", "active", "mac"} \subseteq DOMAIN items[i].data.val
        /\ \A f \in {"name", "token", "mac"} : items[i].data.val[f].type = "string"
        /\ items[i].data.val["active"].type = "boolean"

DistinctNames(items) ==
    \A i, j \in 1..Len(items) : i # j => items[i].data.val["name"] # items[j].data.val["name"]

\* a member is active when the code takes its flag as true: if data["active"]
IsActive(item) == Truthy(item.data.val["active"])

\* exactly one member is active when there is one, none when there is none
SingleActive(items) ==
    Cardinality({i \in 1..Len(items) : IsActive(items[i])}) = (IF Len(items) = 0 THEN 0 ELSE 1)

\* the file holds a registry that satisfies the invariants of the data model
SatisfiesInvariants(file) ==
    /\ file.exists
    /\ file.top = "object"
    /\ \A i \in 1..Len(file.items) : KeyPattern(file.items[i].key)
    /\ CompleteRecords(file.items)
    /\ DistinctNames(file.items)
    /\ SingleActive(file.items)

\* the device object that stands for a member of the registry
AuroraOf(item) ==
    Aurora(item.key, item.data.val["name"], item.data.val["mac"], item.data.val["token"])

NoRecordNamed(items, name) ==
    \A i \in 1..Len(items) : items[i].data.val["name"] # name

(***************************************************************************)
(* C1: after any sequence of save_aurora and set_active calls, succeeding  *)
(* or raising, the registry that loading the store returns has exactly one *)
(* active record when it is non-empty and none when it is empty.           *)
(***************************************************************************)
C1_SingleActiveAfterLoad ==
    \A verbose \in BOOLEAN :
        LET l == _load_configs(store, verbose)
        IN l.exc = "none" =>
              /\ \A i \in 1..Len(l.configs) : "active" \in DOMAIN l.configs[i].data.val
              /\ SingleActive(l.configs)

\* a store of two records that a successful set_active wrote
C1_Witness ==
    /\ op = "set_active"
    /\ exc = "none"
    /\ Len(store.items) = 2
    /\ _load_configs(store, FALSE).exc = "none"

(***************************************************************************)
(* C3 as stated: get_by_name_or_active(name) with a non-null name that     *)
(* matches no record fails with the device-not-found error and returns no  *)
(* device.                                                                 *)
(***************************************************************************)
C3_Original ==
    (/\ op = "get_by_name_or_active"
     /\ argVerbose = FALSE
     /\ argName.type = "string"
     /\ SatisfiesInvariants(store)
     /\ NoRecordNamed(store.items, argName))
    => (exc = "DeviceNotExistsException" /\ ret = NoAurora)

(***************************************************************************)
(* C3 amended: get_by_name_or_active(name) with a non-null name that       *)
(* matches no record of the loaded registry falls back to the active       *)
(* device: it raises the device-not-found error exactly when the registry  *)
(* is empty, and whenever it returns it returns the active record.         *)
(***************************************************************************)
C3_FallsBackToActive ==
    LET l == _load_configs(store, argVerbose)
    IN (/\ op = "get_by_name_or_active"
        /\ argName.type = "string"
        /\ l.exc = "none"
        /\ NoRecordNamed(l.configs, argName))
       => /\ exc = "DeviceNotExistsException" <=> Len(l.configs) = 0
          /\ exc = "none" =>
                \E i \in 1..Len(l.configs) : IsActive(l.configs[i]) /\ ret = AuroraOf(l.configs[i])

\* an unknown name resolved to the active record, which is not the first one
C3_Witness ==
    /\ op = "get_by_name_or_active"
    /\ argName = JStr("zz")
    /\ exc = "none"
    /\ SatisfiesInvariants(store)
    /\ Len(store.items) = 2
    /\ ret = AuroraOf(store.items[2])

(***************************************************************************)
(* C4: on a registry that satisfies the invariants, resolving with no name *)
(* returns the record whose active flag is true, and resolving with the    *)
(* name of an existing record returns exactly that record, active or not.  *)
(* The call is the claim's: get_by_name_or_active(name), verbose left off. *)
(***************************************************************************)
C4_Resolve ==
    (/\ op = "get_by_name_or_active"
     /\ argVerbose = FALSE
     /\ SatisfiesInvariants(store))
    => /\ (argName = JNull /\ Len(store.items) > 0) =>
             /\ exc = "none"
             /\ \E i \in 1..Len(store.items) : IsActive(store.items[i]) /\ ret = AuroraOf(store.items[i])
       /\ \A i \in 1..Len(store.items) :
             store.items[i].data.val["name"] = argName =>
                (exc = "none" /\ ret = AuroraOf(store.items[i]))

\* the name of the inactive second record was resolved
C4_Witness ==
    /\ op = "get_by_name_or_active"
    /\ argVerbose = FALSE
    /\ SatisfiesInvariants(store)
    /\ Len(store.items) = 2
    /\ IsActive(store.items[1])
    /\ argName = store.items[2].data.val["name"]
    /\ ret = AuroraOf(store.items[2])

(***************************************************************************)
(* C5: set_active(name) with a name that matches no record raises the      *)
(* device-not-found error and leaves the persisted registry as it was: the *)
(* flags cleared in memory are not written.  Whenever set_active raises    *)
(* device-not-found the store is unchanged; and on a registry satisfying   *)
(* the invariants the call set_active(name) (verbose left off) with a name *)
(* of no record raises it.                                                 *)
(***************************************************************************)
C5_NotFoundWritesNothing ==
    [][(op = "idle" /\ op' = "set_active") =>
          /\ exc' = "DeviceNotExistsException" => store' = store
          /\ (/\ argVerbose' = FALSE
              /\ SatisfiesInvariants(store)
              /\ NoRecordNamed(store.items, argName'))
             => (exc' = "DeviceNotExistsException" /\ store' = store)]_vars

\* set_active of an unknown name failed and the stored active flag is still set
C5_Witness ==
    /\ op = "set_active"
    /\ argName = JStr("zz")
    /\ exc = "DeviceNotExistsException"
    /\ SatisfiesInvariants(store)
    /\ Len(store.items) = 2
    /\ IsActive(store.items[2])

(***************************************************************************)
(* C6: after set_active(name) succeeds, the persisted registry has the     *)
(* record named name active and every other record inactive, whichever     *)
(* record was active before.                                               *)
(***************************************************************************)
C6_SetActivePersisted ==
    [][(op = "idle" /\ op' = "set_active" /\ exc' = "none") =>
          /\ store'.exists
          /\ \E i \in 1..Len(store'.items) : store'.items[i].data.val["name"] = argName'
          /\ \A i \in 1..Len(store'.items) :
                store'.items[i].data.val["active"] =
                    JBool(store'.items[i].data.val["name"] = argName')]_vars

\* the second record of the store was made active
C6_Witness ==
    /\ op = "set_active"
    /\ exc = "none"
    /\ Len(store.items) = 2
    /\ store.items[2].data.val["name"] = argName
    /\ IsActive(store.items[2])
    /\ ~IsActive(store.items[1])

(***************************************************************************)
(* C7: loading a non-empty store of complete records in which no record or *)
(* more than one record is marked active does not fail: the registry       *)
(* returned has the first record of the store active and all others not.   *)
(***************************************************************************)
LoadableShape(file) ==
    /\ file.exists
    /\ file.top = "object"
    /\ CompleteRecords(file.items)

C7_RepairFirst ==
    (/\ op = "_load_configs"
     /\ LoadableShape(store)
     /\ Len(store.items) > 0
     /\ Cardinality({i \in 1..Len(store.items) : IsActive(store.items[i])}) # 1)
    => /\ exc = "none"
       /\ Len(loaded) = Len(store.items)
       /\ \A i \in 1..Len(loaded) :
             /\ loaded[i].key = store.items[i].key
             /\ loaded[i].data.val["active"] = JBool(i = 1)

\* a store with two active records was loaded
C7_Witness ==
    /\ op = "_load_configs"
    /\ LoadableShape(store)
    /\ Len(store.items) = 2
    /\ IsActive(store.items[1])
    /\ IsActive(store.items[2])
    /\ exc = "none"
    /\ ~IsActive(loaded[2])

(***************************************************************************)
(* A second specification for the renaming of duplicate names: registries  *)
(* of up to MaxNamed complete records, whose names collide, are loaded and *)
(* saved.                                                                  *)
(***************************************************************************)
DigitOf(n) ==
    CASE n = 1 -> "1" [] n = 2 -> "2" [] n = 3 -> "3" [] n = 4 -> "4" [] n = 5 -> "5"
      [] n = 6 -> "6" [] n = 7 -> "7" [] n = 8 -> "8" [] n = 9 -> "9"

NamedKeys == {<<"1", ".", "1", ".", "1", ".", DigitOf(n)>> : n \in 1..MaxNamed}

NamedItems ==
    UNION {{items \in [1..n -> [key : NamedKeys, data : WellFormedData]] :
                \A i, j \in 1..n : i # j => items[i].key # items[j].key} : n \in 0..MaxNamed}

InitNames ==
    /\ store \in {File("object", items) : items \in NamedItems}
    /\ op = "idle"
    /\ argName = JNull
    /\ argAurora = NoAurora
    /\ argVerbose = FALSE
    /\ exc = "none"
    /\ msg = ""
    /\ ret = NoAurora
    /\ loaded = <<>>
    /\ AmbiIdle
    /\ AuroraIdle

NextNames == LoadConfigs \/ SetActive \/ Exit

SpecNames == InitNames /\ [][NextNames]_vars

\* name followed by k suffixes
RECURSIVE Suffixed(_, _)
Suffixed(name, k) == IF k = 0 THEN name ELSE Suffixed(name, k - 1) \o " [duplicate]"

(***************************************************************************)
(* C2: after _save_config and after every load no two records share a     *)
(* name: a record whose name collides with an earlier record's has got the *)
(* suffix " [duplicate]" appended until its name is unique; a record whose *)
(* name collides with no earlier record keeps its name.                    *)
(***************************************************************************)
C2_UniqueNames ==
    /\ (op = "_load_configs" /\ exc = "none") =>
          /\ Len(loaded) = Len(store.items)
          /\ DistinctNames(loaded)
          /\ \A i \in 1..Len(loaded) :
                /\ \E k \in 0..Len(loaded) :
                      loaded[i].data.val["name"] =
                          JStr(Suffixed(store.items[i].data.val["name"].val, k))
                /\ (\A j \in 1..(i - 1) :
                        loaded[j].data.val["name"] # store.items[i].data.val["name"])
                   => loaded[i].data.val["name"] = store.items[i].data.val["name"]
    /\ (op = "set_active" /\ exc = "none") => DistinctNames(store.items)

\* the third record collided with a record and with the suffixed name as well
C2_Witness ==
    /\ op = "_load_configs"
    /\ exc = "none"
    /\ Len(loaded) = 3
    /\ store.items[1].data.val["name"] = JStr("a")
    /\ store.items[2].data.val["name"] = JStr("a [duplicate]")
    /\ store.items[3].data.val["name"] = JStr("a")
    /\ loaded[3].data.val["name"] = JStr("a [duplicate] [duplicate]")

(***************************************************************************)
(* C8: load fails with the schema-violation error whenever the stored      *)
(* structure does not match the per-record shape (a record lacks name,     *)
(* active or mac, a field has another type, or a key is not a dotted-quad  *)
(* address); it neither proceeds nor fails with another error.             *)
(***************************************************************************)
\* the shape of the stored structure, with the token a string, null or absent
RecordShape(data) ==
    /\ data.type = "object"
    /\ {"name", "active", "mac"} \subseteq DOMAIN data.val
    /\ data.val["name"].type = "string"
    /\ data.val["mac"].type = "string"
    /\ data.val["active"].type = "boolean"
    /\ "token" \in DOMAIN data.val => data.val["token"].type \in {"string", "null"}

StoreShape(file) ==
    /\ file.top = "object"
    /\ \A i \in 1..Len(file.items) :
          KeyPattern(file.items[i].key) /\ RecordShape(file.items[i].data)

C8_SchemaViolation ==
    (/\ op = "_load_configs"
     /\ argVerbose = FALSE
     /\ store.exists
     /\ \A i \in 1..Len(store.items) : store.items[i].data.type = "object"
     /\ ~StoreShape(store))
    => exc = "ValidationError"

(***************************************************************************)
(* C9: a registry that contains a record not yet paired (its token absent  *)
(* or null) is valid: loading it raises no error.                          *)
(***************************************************************************)
C9_UnpairedAccepted ==
    (/\ op = "_load_configs"
     /\ argVerbose = FALSE
     /\ store.exists
     /\ StoreShape(store)
     /\ \E i \in 1..Len(store.items) :
           \/ "token" \notin DOMAIN store.items[i].data.val
           \/ store.items[i].data.val["token"] = JNull)
    => exc = "none"

(***************************************************************************)
(* C10: starting from an empty registry, save_aurora of a device record    *)
(* completes without error and persists it, and resolving with no name     *)
(* after a load returns that record.                                       *)
(***************************************************************************)
C10_UpsertIntoEmpty ==
    [][(/\ op = "idle"
        /\ store \in {NoFile, File("object", <<>>)}
        /\ op' = "save_aurora"
        /\ argVerbose' = FALSE
        /\ KeyPattern(argAurora'.ip_address)
        /\ argAurora'.auth_token.type = "string")
       => /\ exc' = "none"
          /\ store'.exists
          /\ Len(store'.items) = 1
          /\ store'.items[1].key = argAurora'.ip_address
          /\ get_by_name_or_active(store', JNull, FALSE) =
                [exc |-> "none", msg |-> "", aurora |-> argAurora']]_vars

(***************************************************************************)
(* C11: a missing configuration store loads as an empty registry without   *)
(* error; on an empty registry get_by_name_or_active(None) raises the      *)
(* DeviceNotExistsException of get_active ("No active Aurora found") and   *)
(* set_active of any name raises the DeviceNotExistsException of           *)
(* set_active ("No Aurora with name ... was found"), the store staying as  *)
(* it was.  The registry is empty when there is no file or the file holds  *)
(* the empty object; a missing file is not validated, so whatever verbose  *)
(* is, while for the file holding the empty object verbose is left off.    *)
(***************************************************************************)
EmptyRegistry(file, verbose) ==
    ~file.exists \/ (file.top = "object" /\ file.items = <<>> /\ ~verbose)

C11_MissingStoreIsEmpty ==
    /\ (op = "_load_configs" /\ ~store.exists) => (exc = "none" /\ loaded = <<>>)
    /\ (op = "get_by_name_or_active" /\ argName = JNull /\ EmptyRegistry(store, argVerbose))
       => (exc = "DeviceNotExistsException" /\ msg = NoActiveFound /\ ret = NoAurora)
    /\ (op = "set_active" /\ EmptyRegistry(store, argVerbose))
       => (exc = "DeviceNotExistsException" /\ msg = NotFoundToActivate)

C11_Witness ==
    /\ op = "get_by_name_or_active"
    /\ argName = JNull
    /\ ~store.exists
    /\ exc = "DeviceNotExistsException"
    /\ msg = NoActiveFound

(***************************************************************************)
(* C12: for every Aurora, Aurora.deserialize(ip, data) applied to the      *)
(* single (ip, data) entry that Aurora.serialize produced returns an       *)
(* Aurora of the same address, name, token and mac.                        *)
(***************************************************************************)
C12_RoundTrip ==
    op = "serialize"
    => /\ exc = "none"
       /\ Len(loaded) = 1
       /\ ret.ip_address = argAurora.ip_address
       /\ ret.name = argAurora.name
       /\ ret.auth_token = argAurora.auth_token
       /\ ret.mac = argAurora.mac

C12_Witness ==
    /\ op = "serialize"
    /\ argAurora.auth_token = JNull
    /\ ret = argAurora
    /\ "active" \notin DOMAIN loaded[1].data.val

(***************************************************************************)
(* The ambilight loop: `auri ambi start -b` calls start(blocking=True),    *)
(* which runs _run_ambi_loop in the calling process.  pc is the position   *)
(* of that process: "capture" at the start of a tick, "push" once the      *)
(* screen is grabbed, "sleep" before time.sleep, "raised" when an          *)
(* exception left the loop, "killed" when the process got a signal.        *)
(***************************************************************************)
\* the colours a quantized screen may show
Colours == {<<10, 5, 50>>, <<20, 80, 60>>, <<30, 90, 70>>, <<40, 10, 40>>}

\* the colours of an image quantized to at most n colours, by frequency
RankedColours(n) ==
    UNION {{colors \in [1..k -> Colours] : \A i, j \in 1..k : i # j => colors[i] # colors[j]} :
              k \in 0..(IF n < MaxColors THEN n ELSE MaxColors)}

\* the settings the controller is built from: those shipped, and others
Templates ==
    {PROPERTY_TEMPLATE,
     [delay |-> 2, top |-> 2, quantization |-> 10, greyness |-> 10],
     [delay |-> 1, top |-> 2, quantization |-> 1, greyness |-> 10],
     [delay |-> 1, top |-> 2, quantization |-> 10, greyness |-> 95]}

\* what a child process started with the command line argv runs: the loop
\* when the command has the option -b (command_line.py: block)
Child(argv) ==
    IF \E i \in 1..Len(argv) : argv[i] = "-b" THEN "loop" ELSE "starter"

\* effects_ambi_start of command_line.py; resolved tells whether
\* get_by_name_or_active returned a device, child is the pid Popen gets
effects_ambi_start(block, resolved, file, processes, child) ==
    IF ~resolved
    THEN [exc |-> "DeviceNotExistsException", pc |-> "idle", pidFile |-> file,
          procs |-> processes, spawned |-> {}]
    ELSE IF block
    THEN [exc |-> "none", pc |-> "capture", pidFile |-> file, procs |-> processes,
          spawned |-> {}]
    ELSE [exc |-> "none", pc |-> "idle", pidFile |-> save_pid(file, child),
          procs |-> [processes EXCEPT ![child] = Child(<<"auri", "ambi", "start", "-v">>)],
          spawned |-> {child}]

\* calls stop() before it looks at blocking
start_stopfirst(blocking, file, processes, child) ==
    LET s == stop(file, processes)
    IN IF s.exc # "none"
       THEN [exc |-> s.exc, pc |-> "idle", pidFile |-> file, procs |-> s.procs,
             killed |-> s.killed, spawned |-> {}]
       ELSE IF blocking
       THEN [exc |-> "none", pc |-> "capture", pidFile |-> file, procs |-> s.procs,
             killed |-> s.killed, spawned |-> {}]
       ELSE [exc |-> "none", pc |-> "idle", pidFile |-> save_pid(file, child),
             procs |-> [s.procs EXCEPT ![child] =
                                   Child(<<"auri", "ambi", "start", "-b">>)],
             killed |-> s.killed, spawned |-> {child}]

\* AmbilightController.start(blocking); child is the pid Popen gets for the
\* process `auri ambi start -b`.  A blocking start enters the loop.
start(blocking, file, processes, child) ==
    IF blocking
    THEN [exc |-> "none", pc |-> "capture", pidFile |-> file, procs |-> processes,
          killed |-> {}, spawned |-> {}]
    ELSE LET s == stop(file, processes)
         IN IF s.exc # "none"
            THEN [exc |-> s.exc, pc |-> "idle", pidFile |-> file, procs |-> s.procs,
                  killed |-> s.killed, spawned |-> {}]
            ELSE [exc |-> "none", pc |-> "idle", pidFile |-> save_pid(file, child),
                  procs |-> [s.procs EXCEPT ![child] =
                                   Child(<<"auri", "ambi", "start", "-b">>)],
                  killed |-> s.killed, spawned |-> {child}]

\* where _run_ambi_loop is after set_effect_to_current_screen_colors ended
\* with e
AfterTick(e) == IF e = "none" \/ except_clause(e) THEN "sleep" ELSE "raised"

InitLoop ==
    /\ store = NoFile
    /\ op = "idle"
    /\ argName = JNull
    /\ argAurora = NoAurora
    /\ argVerbose = FALSE
    /\ exc = "none"
    /\ msg = ""
    /\ ret = NoAurora
    /\ loaded = <<>>
    /\ globals \in {Globals(EFFECT_TEMPLATE, t, grab) : t \in Templates, grab \in BOOLEAN}
    /\ ctl = AmbilightController(globals)
    /\ pc = "idle"
    /\ clock = 0
    /\ tick = [n |-> 0, start |-> 0, prevStart |-> 0, took |-> 0, prevTook |-> 0,
               colors |-> <<>>, exc |-> "none", pushed |-> NoPayload]
    /\ \E p \in Pids :
          \/ pidFile = NoPid /\ procs = [q \in Pids |-> "free"]
          \/ pidFile = <<p>> /\ procs = [q \in Pids |-> IF q = p THEN "loop" ELSE "free"]
    /\ sup = [op |-> "none", blocking |-> FALSE, exc |-> "none", killed |-> {},
              spawned |-> {}, chain |-> 0]
    /\ AuroraIdle

StartBlocking ==
    \E child \in Pids :
        LET r == start(TRUE, pidFile, procs, child)
        IN /\ pc = "idle"
           /\ ctl.exc = "none"
           /\ sup.op = "none"
           /\ pc' = r.pc
           /\ pidFile' = r.pidFile
           /\ procs' = r.procs
           /\ sup' = [op |-> "start", blocking |-> TRUE, exc |-> r.exc, killed |-> r.killed,
                      spawned |-> r.spawned, chain |-> 0]
           /\ UNCHANGED <<regVars, auroraVars, globals, ctl, clock, tick>>

\* a tick starts: start = time.time(), and the screen is grabbed
Capture ==
    \E capture \in {CaptureOutcome("OSError", <<>>)}
                   \cup {CaptureOutcome("none", c) : c \in RankedColours(ctl._quantization)} :
        LET r == set_effect_to_current_screen_colors(
                     ctl, globals.EFFECT_TEMPLATE, capture, "none")
        IN /\ pc = "capture"
           /\ clock < MaxClock
           /\ tick' = [n |-> tick.n + 1, start |-> clock, prevStart |-> tick.start,
                       took |-> 0, prevTook |-> tick.took,
                       colors |-> capture.colors, exc |-> capture.exc, pushed |-> NoPayload]
           /\ pc' = IF capture.exc = "none" THEN "push" ELSE AfterTick(r.exc)
           /\ UNCHANGED <<regVars, auroraVars, globals, ctl, clock, pidFile, procs, sup>>

\* the colours are filtered, the payload is rendered and pushed; the tick's
\* work took `took` seconds
Push ==
    \E push \in PushOutcomes, took \in 0..MaxTook :
        LET r == set_effect_to_current_screen_colors(
                     ctl, globals.EFFECT_TEMPLATE, CaptureOutcome("none", tick.colors), push)
        IN /\ pc = "push"
           /\ globals' = [globals EXCEPT !.EFFECT_TEMPLATE = r.template]
           /\ tick' = [tick EXCEPT !.exc = r.exc, !.pushed = r.pushed, !.took = took]
           /\ clock' = clock + took
           /\ pc' = AfterTick(r.exc)
           /\ UNCHANGED <<regVars, auroraVars, ctl, pidFile, procs, sup>>

\* time.sleep at the end of the tick
Sleep ==
    /\ pc = "sleep"
    /\ clock' = clock + sleep_time(ctl, tick.start, clock)
    /\ pc' = "capture"
    /\ tick' = [tick EXCEPT !.colors = <<>>, !.exc = "none", !.pushed = NoPayload]
    /\ UNCHANGED <<regVars, auroraVars, globals, ctl, pidFile, procs, sup>>

\* the process running the loop gets SIGKILL
Killed ==
    /\ pc \in {"capture", "push", "sleep"}
    /\ pc' = "killed"
    /\ UNCHANGED <<regVars, auroraVars, globals, ctl, clock, tick, pidFile, procs, sup>>

NextLoop == StartBlocking \/ Capture \/ Push \/ Sleep \/ Killed

SpecLoop == InitLoop /\ [][NextLoop]_vars

(***************************************************************************)
(* C13 as stated: the time between the starts of two consecutive ticks is  *)
(* max(delay, processing time of the earlier tick).                        *)
(***************************************************************************)
C13_Original ==
    tick.n >= 2
    => tick.start - tick.prevStart =
          IF tick.prevTook > ctl._delay THEN tick.prevTook ELSE ctl._delay

(***************************************************************************)
(* C13: each tick of the loop starts _delay seconds after the processing   *)
(* of the previous tick ended: the time between the starts of two          *)
(* consecutive ticks is the processing time of the earlier tick plus       *)
(* _delay, whether the processing took less or more than _delay.           *)
(***************************************************************************)
C13_TickInterval ==
    tick.n >= 2 => tick.start - tick.prevStart = tick.prevTook + ctl._delay

C13_Witness ==
    /\ tick.n >= 2
    /\ tick.prevTook > ctl._delay
    /\ tick.start - tick.prevStart = tick.prevTook + ctl._delay

(***************************************************************************)
(* C14: a push that fails with a RequestException or an AuroraException    *)
(* does not end the loop: unless the process is killed, the step after     *)
(* any push, failed or not, is the sleep, the sleep lasts _delay whatever  *)
(* the pushes before it did, and the step after the sleep is the next      *)
(* tick.                                                                   *)
(***************************************************************************)
C14_PushFailureContinues ==
    [][/\ (pc = "push" /\ pc' # "killed") => pc' = "sleep"
       /\ (pc = "sleep" /\ pc' # "killed")
          => (pc' = "capture" /\ clock' = clock + ctl._delay)]_vars

C14_Witness ==
    /\ pc = "sleep"
    /\ tick.n >= 2
    /\ tick.exc = "AuroraException"
    /\ Len(tick.pushed) = 1

(***************************************************************************)
(* C15 as stated: no error raised during a tick propagates out of the      *)
(* loop.                                                                   *)
(***************************************************************************)
C15_Original == pc # "raised"

(***************************************************************************)
(* C15: a RequestException or an AuroraException raised during a tick      *)
(* does not propagate out of the loop; every other error raised during a   *)
(* tick, such as the OSError of a failed screen grab, propagates out of    *)
(* _run_ambi_loop and ends the loop.                                       *)
(***************************************************************************)
C15_OnlyCaughtContained ==
    [][(pc \in {"capture", "push"} /\ pc' # "killed")
       => (pc' = "raised"
              <=> tick'.exc \notin {"none", "RequestException", "AuroraException"})]_vars

C15_Witness ==
    /\ pc = "raised"
    /\ tick.exc = "OSError"
    /\ tick.n >= 2

(***************************************************************************)
(* C20: when at least one colour was sampled and every sampled colour has  *)
(* a saturation below _greyness, the palette handed to the device is made  *)
(* of the first _top colours of the unfiltered ranked list, in their       *)
(* order, and is not empty.                                                *)
(***************************************************************************)
C20_GreyFallback ==
    (/\ Len(tick.pushed) = 1
     /\ Len(tick.colors) > 0
     /\ \A i \in 1..Len(tick.colors) : tick.colors[i][2] < ctl._greyness)
    => LET palette == tick.pushed[1].palette
       IN /\ Len(palette) > 0
          /\ Len(palette) = IF Len(tick.colors) < ctl._top THEN Len(tick.colors) ELSE ctl._top
          /\ \A i \in 1..Len(palette) :
                /\ palette[i].hue = tick.colors[i][1]
                /\ palette[i].saturation = tick.colors[i][2]
                /\ palette[i].brightness = tick.colors[i][3]

C20_Witness ==
    /\ Len(tick.pushed) = 1
    /\ Len(tick.colors) > ctl._top
    /\ \A i \in 1..Len(tick.colors) : tick.colors[i][2] < ctl._greyness
    /\ Len(tick.pushed[1].palette) = ctl._top

(***************************************************************************)
(* C19: start(blocking=True) runs the loop in the calling process: the     *)
(* call enters the loop, and neither the call nor any step of the loop     *)
(* kills a process, spawns one or writes the pid file.                     *)
(***************************************************************************)
C19_BlockingRunsInProcess ==
    [][/\ (pc = "idle" /\ sup'.op = "start" /\ sup'.blocking)
          => (pc' = "capture" /\ sup'.exc = "none")
       /\ (sup'.op = "start" /\ sup'.blocking)
          => /\ pidFile' = pidFile
             /\ procs' = procs
             /\ sup'.killed = {}
             /\ sup'.spawned = {}]_vars

C19_Witness ==
    /\ sup.op = "start"
    /\ sup.blocking
    /\ pc = "sleep"
    /\ tick.n >= 2
    /\ pidFile # NoPid
    /\ procs[pidFile[1]] = "loop"

(***************************************************************************)
(* The supervision of the background loop: the commands `auri ambi start`  *)
(* and `auri ambi stop`, each a short-lived process, and the processes of  *)
(* the machine.  procs maps a pid to "free", to "loop" (a process running  *)
(* the loop), to "starter" (a child that runs the non-blocking start       *)
(* again) or to "other" (a process that is not auri's).                    *)
(***************************************************************************)
InitSup ==
    /\ store = NoFile
    /\ op = "idle"
    /\ argName = JNull
    /\ argAurora = NoAurora
    /\ argVerbose = FALSE
    /\ exc = "none"
    /\ msg = ""
    /\ ret = NoAurora
    /\ loaded = <<>>
    /\ AmbiIdle
    /\ AuroraIdle

\* AmbilightController.start(blocking=False)
Start ==
    \E child \in Pids :
        LET r == start(FALSE, pidFile, procs, child)
        IN /\ sup.op = "none"
           /\ r.spawned # {} => stop(pidFile, procs).procs[child] = "free"
           /\ pidFile' = r.pidFile
           /\ procs' = r.procs
           /\ sup' = [op |-> "start", blocking |-> FALSE, exc |-> r.exc, killed |-> r.killed,
                      spawned |-> r.spawned, chain |-> Cardinality(r.spawned)]
           /\ UNCHANGED <<regVars, auroraVars, globals, ctl, pc, clock, tick>>

\* AmbilightController.stop()
Stop ==
    LET r == stop(pidFile, procs)
    IN /\ sup.op = "none"
       /\ procs' = r.procs
       /\ sup' = [op |-> "stop", blocking |-> FALSE, exc |-> r.exc, killed |-> r.killed,
                  spawned |-> {}, chain |-> sup.chain]
       /\ UNCHANGED <<regVars, auroraVars, globals, ctl, pc, clock, tick, pidFile>>

\* the command `auri ambi start` of command_line.py, without -b
CliAmbiStart ==
    \E child \in Pids, resolved \in BOOLEAN :
        LET r == effects_ambi_start(FALSE, resolved, pidFile, procs, child)
        IN /\ sup.op = "none"
           /\ procs[child] = "free"
           /\ pidFile' = r.pidFile
           /\ procs' = r.procs
           /\ sup' = [op |-> "ambi start", blocking |-> FALSE, exc |-> r.exc, killed |-> {},
                      spawned |-> r.spawned, chain |-> Cardinality(r.spawned)]
           /\ UNCHANGED <<regVars, auroraVars, globals, ctl, pc, clock, tick>>

\* a child spawned as `auri ambi start -v` runs the command and exits
StarterRuns ==
    \E p \in Pids, child \in Pids, resolved \in BOOLEAN :
        LET r == effects_ambi_start(FALSE, resolved, pidFile, procs, child)
        IN /\ procs[p] = "starter"
           /\ procs[child] = "free"
           /\ sup.chain < MaxChain
           /\ pidFile' = r.pidFile
           /\ procs' = [r.procs EXCEPT ![p] = "free"]
           /\ sup' = [sup EXCEPT !.chain = sup.chain + Cardinality(r.spawned)]
           /\ UNCHANGED <<regVars, auroraVars, globals, ctl, pc, clock, tick>>

\* the command `auri ambi stop` of command_line.py
CliAmbiStop ==
    LET r == effects_ambi_stop(pidFile, procs)
    IN /\ sup.op = "none"
       /\ procs' = r.procs
       /\ sup' = [op |-> "ambi stop", blocking |-> FALSE, exc |-> r.exc, killed |-> r.killed,
                  spawned |-> {}, chain |-> sup.chain]
       /\ UNCHANGED <<regVars, auroraVars, globals, ctl, pc, clock, tick, pidFile>>

\* the command returns to the shell
Returns ==
    /\ sup.op # "none"
    /\ sup' = [op |-> "none", blocking |-> FALSE, exc |-> "none", killed |-> {},
               spawned |-> {}, chain |-> sup.chain]
    /\ UNCHANGED <<regVars, auroraVars, globals, ctl, pc, clock, tick, pidFile, procs>>

\* a process running the loop, or a process that is not auri's, ends
ProcExits ==
    \E p \in Pids :
        /\ procs[p] \in {"loop", "other"}
        /\ procs' = [procs EXCEPT ![p] = "free"]
        /\ UNCHANGED <<regVars, auroraVars, globals, ctl, pc, clock, tick, pidFile, sup>>

\* the system gives a free pid to a process that is not auri's
PidReused ==
    \E p \in Pids :
        /\ procs[p] = "free"
        /\ procs' = [procs EXCEPT ![p] = "other"]
        /\ UNCHANGED <<regVars, auroraVars, globals, ctl, pc, clock, tick, pidFile, sup>>

NextSup ==
    Start \/ Stop \/ CliAmbiStart \/ CliAmbiStop \/ StarterRuns \/ Returns \/ ProcExits \/ PidReused

SpecSup == InitSup /\ [][NextSup]_vars

(***************************************************************************)
(* C16: AmbilightController.stop(), called when nothing is running (no pid *)
(* is recorded, or no process has the recorded pid), raises no error,      *)
(* kills nothing and leaves the processes and the pid file as they were.   *)
(***************************************************************************)
NothingRunning == pidFile = NoPid \/ procs[pidFile[1]] = "free"

C16_StopIsNoOp ==
    [][(sup.op = "none" /\ sup'.op = "stop" /\ NothingRunning)
       => /\ sup'.exc = "none"
          /\ sup'.killed = {}
          /\ procs' = procs
          /\ pidFile' = pidFile]_vars

(***************************************************************************)
(* C17: a non-blocking AmbilightController.start(), whatever the state     *)
(* before it (no pid recorded, recorded process alive, recorded process    *)
(* gone), returns without error having killed the recorded process if it   *)
(* was alive, spawned exactly one child running the loop, and written      *)
(* that child's pid to the pid file.                                       *)
(***************************************************************************)
C17_StartStopsThenSpawnsOne ==
    [][(sup.op = "none" /\ sup'.op = "start" /\ ~sup'.blocking)
       => /\ sup'.exc = "none"
          /\ sup'.killed = IF NothingRunning THEN {} ELSE {pidFile[1]}
          /\ Cardinality(sup'.spawned) = 1
          /\ \A c \in sup'.spawned : pidFile' = <<c>> /\ procs'[c] = "loop"]_vars

(***************************************************************************)
(* C18: the child that the command `auri ambi start` (without -b) spawns   *)
(* runs the loop and spawns no further process: one such command leaves    *)
(* one spawned process, a loop process, and no process that starts again.  *)
(***************************************************************************)
C18_ChildRunsLoop ==
    /\ sup.chain <= 1
    /\ \A p \in Pids : procs[p] # "starter"

(***************************************************************************)
(* C21: when at least one sampled colour has a saturation of _greyness or  *)
(* more, the palette handed to the device is made of the first _top        *)
(* colours of the ranked list whose saturation is _greyness or more, in    *)
(* the order of the ranked list.                                           *)
(***************************************************************************)
Saturated(colors, greyness) == SelectSeq(colors, LAMBDA c : c[2] >= greyness)

C21_FilteredTop ==
    (/\ Len(tick.pushed) = 1
     /\ \E i \in 1..Len(tick.colors) : tick.colors[i][2] >= ctl._greyness)
    => LET palette == tick.pushed[1].palette
           kept == Saturated(tick.colors, ctl._greyness)
       IN /\ Len(palette) = IF Len(kept) < ctl._top THEN Len(kept) ELSE ctl._top
          /\ \A i \in 1..Len(palette) :
                /\ palette[i].hue = kept[i][1]
                /\ palette[i].saturation = kept[i][2]
                /\ palette[i].brightness = kept[i][3]

C21_Witness ==
    /\ Len(tick.pushed) = 1
    /\ tick.colors = <<(<<10, 5, 50>>), (<<20, 80, 60>>), (<<30, 90, 70>>)>>
    /\ ctl._greyness = 10
    /\ ctl._top = 2
    /\ tick.pushed[1].palette =
          <<[hue |-> 20, saturation |-> 80, brightness |-> 60],
            [hue |-> 30, saturation |-> 90, brightness |-> 70]>>

(***************************************************************************)
(* C22: the payload built by _render_effect_template has every field of    *)
(* EFFECT_TEMPLATE other than palette equal to the template's, and a       *)
(* palette of one {hue, saturation, brightness} entry per colour given, in *)
(* the order given; EFFECT_TEMPLATE itself, its empty palette included,    *)
(* is the same after every tick.                                           *)
(***************************************************************************)
C22_RenderKeepsTemplate ==
    /\ globals.EFFECT_TEMPLATE = EFFECT_TEMPLATE
    /\ Len(tick.pushed) = 1
       => LET rendered == tick.pushed[1]
              colors == Slice(colors_filtered(ctl, tick.colors), ctl._top)
          IN /\ DOMAIN rendered = DOMAIN EFFECT_TEMPLATE
             /\ \A f \in DOMAIN rendered \ {"palette"} : rendered[f] = EFFECT_TEMPLATE[f]
             /\ Len(rendered.palette) = Len(colors)
             /\ \A i \in 1..Len(colors) :
                   /\ DOMAIN rendered.palette[i] = {"hue", "saturation", "brightness"}
                   /\ rendered.palette[i].hue = colors[i][1]
                   /\ rendered.palette[i].saturation = colors[i][2]
                   /\ rendered.palette[i].brightness = colors[i][3]

C22_Witness ==
    /\ tick.n >= 2
    /\ Len(tick.pushed) = 1
    /\ Len(tick.pushed[1].palette) = 2
    /\ globals.EFFECT_TEMPLATE.palette = <<>>

(***************************************************************************)
(* C23: the controller built from settings with quantization < top has     *)
(* _top equal to quantization, otherwise _top is the top of the settings   *)
(* (_top = min(top, quantization)); the other settings are taken as they   *)
(* are, and where ImageGrab could be imported the construction raises      *)
(* nothing.                                                                *)
(***************************************************************************)
C23_TopClamped ==
    LET t == globals.PROPERTY_TEMPLATE
    IN /\ globals.ImageGrab => ctl.exc = "none"
       /\ ctl._top = IF t.quantization < t.top THEN t.quantization ELSE t.top
       /\ ctl._quantization = t.quantization
       /\ ctl._greyness = t.greyness
       /\ ctl._delay = t.delay

C23_Witness ==
    /\ globals.PROPERTY_TEMPLATE.quantization < globals.PROPERTY_TEMPLATE.top
    /\ ctl.exc = "none"
    /\ ctl._top = globals.PROPERTY_TEMPLATE.quantization
    /\ pc = "sleep"
    /\ Len(tick.pushed) = 1
    /\ Len(tick.pushed[1].palette) = ctl._top

(***************************************************************************)
(* Commands on one Aurora object: the setup command builds the object,     *)
(* generates its token and may go on to use it.  requests holds the HTTP   *)
(* requests sent, in order.                                                *)
(***************************************************************************)
MaxRequests == 3

\* the responses a device, or the network, gives to a request
Responses ==
    {Response("RequestException", 0, JNull),
     Response("none", 401, JNull),
     Response("none", 500, JNull),
     Response("none", 200, JNull),
     Response("none", 200, JStr("t1")),
     Response("none", 200, JStr("t2"))}

InitAurora ==
    /\ store = NoFile
    /\ op = "idle"
    /\ argName = JNull
    /\ argAurora = NoAurora
    /\ argVerbose = FALSE
    /\ exc = "none"
    /\ msg = ""
    /\ ret = NoAurora
    /\ loaded = <<>>
    /\ AmbiIdle
    /\ \E token \in {JNull, JStr(""), JStr("t0")} :
          /\ device = Aurora(IP1, JStr("a"), JStr("m"), token)
          /\ cmd = [name |-> "__init__", exc |-> "none", init_token |-> token]
    /\ requests = <<>>

GenerateToken ==
    \E response \in Responses :
        LET r == generate_token(device, response)
        IN /\ Len(requests) < MaxRequests
           /\ device' = r.self
           /\ requests' = requests \o r.sent
           /\ cmd' = [cmd EXCEPT !.name = "generate_token", !.exc = r.exc]
           /\ UNCHANGED <<regVars, ambiVars>>

Identify ==
    \E response \in Responses :
        LET r == identify(device, response)
        IN /\ Len(requests) < MaxRequests
           /\ device' = r.self
           /\ requests' = requests \o r.sent
           /\ cmd' = [cmd EXCEPT !.name = "identify", !.exc = r.exc]
           /\ UNCHANGED <<regVars, ambiVars>>

NextAurora == GenerateToken \/ Identify

SpecAurora == InitAurora /\ [][NextAurora]_vars

(***************************************************************************)
(* C24: an authenticated command on an Aurora that has no token raises     *)
(* AuroraException and sends no HTTP request; generate_token, which is     *)
(* not authenticated, sends its request whether or not there is a token.   *)
(***************************************************************************)
C24_AuthRequired ==
    [][/\ (cmd'.name = "identify" /\ ~Truthy(device.auth_token))
          => (cmd'.exc = "AuroraException" /\ requests' = requests)
       /\ cmd'.name = "generate_token"
          => /\ Len(requests') = Len(requests) + 1
             /\ requests'[Len(requests')] =
                   [method |-> "post", url |-> Url(device.ip_address, <<"api", "v1", "new">>)]]_vars

C24_Witness ==
    /\ cmd.name = "identify"
    /\ cmd.exc = "AuroraException"
    /\ device.auth_token = JNull
    /\ Len(requests) = 1
    /\ requests[1].method = "post"

(***************************************************************************)
(* C30: after generate_token() has succeeded on an object that was built   *)
(* without a token, every authenticated command on that object is sent to  *)
(* a URL whose token is the generated one.                                 *)
(***************************************************************************)
C30_UrlHasNewToken ==
    [][(/\ cmd'.name = "identify"
        /\ cmd.init_token = JNull
        /\ device.auth_token # JNull
        /\ Len(requests') = Len(requests) + 1)
       => requests'[Len(requests')].url =
             Url(device.ip_address, <<"api", "v1", Str(device.auth_token), "identify">>)]_vars

(***************************************************************************)
(* The supervisor of src/auri/ambilight_controller.py, which finds the     *)
(* background loop by its signature in the process list.  A process is a   *)
(* record of its name, its command line (a list of words, a word being a   *)
(* sequence of characters) and what it runs; process 1 is the command      *)
(* that calls start() or stop().                                           *)
(***************************************************************************)
AMBI_CALL_ARGS == <<"a", "u", "r", "i", " ", "a", "m", "b", "i", " ", "-", "b">>

\* s.split(): the words of s between the blanks
RECURSIVE Split(_)
Split(s) ==
    IF s = <<>> THEN <<>>
    ELSE IF Head(s) = " " THEN Split(Tail(s))
    ELSE LET n == IF \E i \in 1..Len(s) : s[i] = " "
                  THEN (CHOOSE i \in 1..Len(s) :
                            s[i] = " " /\ \A j \in 1..(i - 1) : s[j] # " ") - 1
                  ELSE Len(s)
         IN <<SubSeq(s, 1, n)>> \o Split(SubSeq(s, n + 1, Len(s)))

\* " ".join(words)
RECURSIVE Join(_)
Join(words) ==
    IF words = <<>> THEN <<>>
    ELSE IF Len(words) = 1 THEN words[1]
    ELSE words[1] \o <<" ">> \o Join(Tail(words))

\* pattern in s
Contains(s, pattern) ==
    \E i \in 1..(Len(s) + 1) :
        /\ i + Len(pattern) - 1 <= Len(s)
        /\ SubSeq(s, i, i + Len(pattern) - 1) = pattern

NoProcess == [name |-> "", cmdline |-> <<>>, runs |-> "nothing"]

\* the name the system gives a process of the Python interpreter
PythonNames == {"Python", "python.exe"}

\* the command line of the process that runs the console script argv[1]
\* with the arguments of argv
ScriptCmdline(argv) ==
    <<(<<"p", "y">>), (<<"/">> \o argv[1])>> \o Tail(argv)

\* the process Popen(argv) starts from the process parent: the same
\* interpreter; `auri ambi -b` runs the loop
Popen(parent, argv) ==
    [name |-> parent.name,
     cmdline |-> ScriptCmdline(argv),
     runs |-> IF \E i \in 1..Len(argv) : argv[i] = <<"-", "b">> THEN "loop" ELSE "cli"]

\* AmbilightController.find_auri_processes: the pids found
find_auri_processes(processes) ==
    {p \in DOMAIN processes :
        /\ processes[p].name = "Python"
        /\ Contains(Join(processes[p].cmdline), AMBI_CALL_ARGS)}

is_running(processes) == Cardinality(find_auri_processes(processes)) > 0

\* AmbilightController.stop of ambilight_controller.py
sig_stop(processes) ==
    LET auri_procs == find_auri_processes(processes)
    IN [procs |-> [p \in DOMAIN processes |->
                      IF p \in auri_procs THEN NoProcess ELSE processes[p]],
        killed |-> auri_procs]

\* AmbilightController.start(blocking=False) of ambilight_controller.py,
\* called in the process self, the child getting the pid child
sig_start(processes, self, child) ==
    LET s == sig_stop(processes)
    IN [procs |-> [s.procs EXCEPT ![child] = Popen(processes[self], Split(AMBI_CALL_ARGS))],
        killed |-> s.killed,
        spawned |-> {child}]

\* processes that are not auri's
OtherProcesses ==
    {[name |-> "vim", cmdline |-> <<(<<"v", "i", "m">>)>>, runs |-> "other"]}
    \cup {[name |-> n, cmdline |-> <<(<<"p", "y">>), (<<"x">>)>>, runs |-> "other"] :
            n \in PythonNames}

InitSig ==
    /\ store = NoFile
    /\ op = "idle"
    /\ argName = JNull
    /\ argAurora = NoAurora
    /\ argVerbose = FALSE
    /\ exc = "none"
    /\ msg = ""
    /\ ret = NoAurora
    /\ loaded = <<>>
    /\ AuroraIdle
    /\ globals = Globals(EFFECT_TEMPLATE, PROPERTY_TEMPLATE, TRUE)
    /\ ctl = AmbilightController(globals)
    /\ pc = "idle"
    /\ clock = 0
    /\ tick = [n |-> 0, start |-> 0, prevStart |-> 0, took |-> 0, prevTook |-> 0,
               colors |-> <<>>, exc |-> "none", pushed |-> NoPayload]
    /\ pidFile = NoPid
    /\ \E n \in PythonNames :
          procs = [p \in Pids |->
                      IF p = 1
                      THEN [name |-> n,
                            cmdline |-> ScriptCmdline(<<(<<"a", "u", "r", "i">>),
                                                        (<<"a", "m", "b", "i">>)>>),
                            runs |-> "cli"]
                      ELSE NoProcess]
    /\ sup = [op |-> "none", blocking |-> FALSE, exc |-> "none", killed |-> {},
              spawned |-> {}, chain |-> 0]

SigStart ==
    \E child \in Pids :
        LET r == sig_start(procs, 1, child)
        IN /\ sig_stop(procs).procs[child] = NoProcess
           /\ procs' = r.procs
           /\ sup' = [op |-> "start", blocking |-> FALSE, exc |-> "none", killed |-> r.killed,
                      spawned |-> r.spawned, chain |-> 0]
           /\ UNCHANGED <<regVars, auroraVars, globals, ctl, pc, clock, tick, pidFile>>

SigStop ==
    LET r == sig_stop(procs)
    IN /\ procs' = r.procs
       /\ sup' = [op |-> "stop", blocking |-> FALSE, exc |-> "none", killed |-> r.killed,
                  spawned |-> {}, chain |-> 0]
       /\ UNCHANGED <<regVars, auroraVars, globals, ctl, pc, clock, tick, pidFile>>

\* a process that is not auri's starts
OtherStarts ==
    \E p \in Pids, process \in OtherProcesses :
        /\ procs[p] = NoProcess
        /\ procs' = [procs EXCEPT ![p] = process]
        /\ UNCHANGED <<regVars, auroraVars, globals, ctl, pc, clock, tick, pidFile, sup>>

NextSig == SigStart \/ SigStop \/ OtherStarts

SpecSig == InitSig /\ [][NextSig]_vars

(***************************************************************************)
(* C25: with the supervisor of ambilight_controller.py, after any sequence *)
(* of non-blocking start() and stop() calls made one after the other at    *)
(* most one process runs the loop in the background, and is_running is     *)
(* false after stop(), no loop process being left.                         *)
(***************************************************************************)
C25_AtMostOneLoop ==
    /\ Cardinality({p \in Pids : procs[p].runs = "loop"}) <= 1
    /\ sup.op = "stop"
       => (~is_running(procs) /\ \A p \in Pids : procs[p].runs # "loop")

(***************************************************************************)
(* The module-level registry functions of src/auri/config.py, which work   *)
(* on the same kind of file.                                               *)
(***************************************************************************)
\* _ensure_valid_actives of config.py
config__ensure_valid_actives(configs, verbose) ==
    IF \E i \in 1..Len(configs) : SubscriptExc(configs[i].data, "active") # "none"
    THEN LET first == CHOOSE i \in 1..Len(configs) :
                        /\ SubscriptExc(configs[i].data, "active") # "none"
                        /\ \A j \in 1..(i - 1) : SubscriptExc(configs[j].data, "active") = "none"
         IN Outcome(SubscriptExc(configs[first].data, "active"), configs)
    ELSE IF ActiveCount(configs) = 1 THEN Outcome("none", configs)
    ELSE IF Len(configs) = 0 THEN Outcome("none", configs)
    ELSE Outcome("none", SetFirstActive(_clear_all_actives(configs)))

\* _ensure_valid_config of config.py
config__ensure_valid_config(top, configs, verbose) ==
    IF ~configs_schema(top, configs) THEN Outcome("ValidationError", configs)
    ELSE config__ensure_valid_actives(configs, verbose)

\* _load_config of config.py
config__load_config(file, verbose) ==
    IF ~file.exists THEN Outcome("none", <<>>)
    ELSE config__ensure_valid_config(file.top, file.items, verbose)

\* _save_config of config.py
config__save_config(file, configs, verbose) ==
    LET v == config__ensure_valid_config("object", configs, verbose)
    IN [exc |-> v.exc, msg |-> "",
        file |-> IF v.exc = "none" THEN File("object", SortKeys(v.configs)) ELSE file]

\* set_active of config.py: the items before the first one named name are
\* compared by data["name"], which raises where there is no name
config_set_active(file, name, verbose) ==
    LET l == config__load_config(file, verbose)
        configs == l.configs
        stops == {i \in 1..Len(configs) :
                    \/ SubscriptExc(configs[i].data, "name") # "none"
                    \/ configs[i].data.val["name"] = name}
        i == FirstIndex(stops)
    IN IF l.exc # "none" THEN [exc |-> l.exc, msg |-> "", file |-> file]
       ELSE IF i = 0 THEN [exc |-> "ConfigException", msg |-> NotFoundToActivate, file |-> file]
       ELSE IF SubscriptExc(configs[i].data, "name") # "none"
       THEN [exc |-> SubscriptExc(configs[i].data, "name"), msg |-> "", file |-> file]
       ELSE config__save_config(file,
                [configs EXCEPT ![i] =
                    [key |-> configs[i].key,
                     data |-> JObj(DictSet(configs[i].data.val, "active", JBool(TRUE)))]],
                verbose)

ConfigSetActive ==
    \E name \in CallNames, verbose \in BOOLEAN :
        LET r == config_set_active(store, name, verbose)
        IN /\ op = "idle"
           /\ store' = r.file
           /\ op' = "config.set_active"
           /\ argName' = name
           /\ argAurora' = NoAurora
           /\ argVerbose' = verbose
           /\ exc' = r.exc
           /\ msg' = r.msg
           /\ ret' = NoAurora
           /\ loaded' = <<>>
           /\ UNCHANGED <<ambiVars, auroraVars>>

NextConfig == ConfigSetActive \/ Exit

SpecConfig == Init /\ [][NextConfig]_vars

(***************************************************************************)
(* C26: when set_active(name) of config.py has returned for the name of a  *)
(* stored record, the record of that name is the only active record of the *)
(* store, whichever record was active before and wherever the named record *)
(* stands (for a store of complete records with different names).          *)
(***************************************************************************)
C26_NamedIsSingleActive ==
    (/\ op = "config.set_active"
     /\ exc = "none"
     /\ CompleteRecords(store.items)
     /\ DistinctNames(store.items))
    => \A i \in 1..Len(store.items) :
          Truthy(store.items[i].data.val["active"])
          <=> store.items[i].data.val["name"] = argName

\* the number of renamings of each record in _ensure_unique_names, from item i on
RECURSIVE RenamingSteps(_, _, _)
RenamingSteps(configs, i, names) ==
    IF i > Len(configs) THEN <<>>
    ELSE LET r == _unique_name(configs[i].data, names)
         IN <<r.steps>> \o (IF r.exc # "none" THEN <<>> ELSE RenamingSteps(configs, i + 1, r.names))

(***************************************************************************)
(* C27: the recursive renaming of _ensure_unique_names ends for every      *)
(* registry of complete records, also where suffixed names are stored      *)
(* already: the load returns, and no record is renamed more often than     *)
(* there are records (the i-th record less than i times).                  *)
(***************************************************************************)
C27_RenamingTerminates ==
    (op = "_load_configs" /\ argVerbose = FALSE)
    => /\ exc = "none"
       /\ LET steps == RenamingSteps(store.items, 1, <<>>)
          IN /\ Len(steps) = Len(store.items)
             /\ \A i \in 1..Len(steps) : steps[i] < i /\ steps[i] <= Len(store.items)

\* a registry with "a", "a [duplicate]" and "a" was loaded: the third record
\* was renamed twice
C27_Witness ==
    /\ op = "_load_configs"
    /\ argVerbose = FALSE
    /\ exc = "none"
    /\ Len(store.items) = 3
    /\ RenamingSteps(store.items, 1, <<>>) = <<0, 0, 2>>
    /\ loaded[3].data.val["name"] = JStr("a [duplicate] [duplicate]")

(***************************************************************************)
(* C28: stop() of ambilight.py and the command `auri ambi stop` kill only  *)
(* a process that was started as the background loop: no step of them      *)
(* kills a process that is not auri's, also when the recorded loop process *)
(* has ended and the system has given its pid to such a process.           *)
(***************************************************************************)
C28_KillsOnlyLoop ==
    [][(sup'.op \in {"stop", "ambi stop"} /\ sup.op = "none")
       => \A p \in sup'.killed : procs[p] # "other"]_vars

====
